---------------------------- MODULE Spec2Model ----------------------------
(***************************************************************************)
(* Model of scripts/combine_playlists.py: the two parsers (parse_m3u,      *)
(* parse_json_channels), the merge / dedupe / group / sort steps of main,  *)
(* and the serializer save_m3u.                                            *)
(*                                                                         *)
(* Python str values are TLA+ strings; characters are read with SubSeq.    *)
(* An optional value (None or a str) is a sequence of length 0 or 1.       *)
(* A dict is a sequence of its items in insertion order.                   *)
(***************************************************************************)
EXTENDS Integers, Sequences, FiniteSets, TLC

VARIABLES
  yt_file,             \* YT_playlist.m3u on disk: [exists, lines]
  json_file,           \* static_channels.json on disk: [kind, data]
  pc,                  \* position of main()
  yt,                  \* main: yt
  chans,               \* main: chans
  combined,            \* main: combined
  idx,                 \* index of the dedupe loop over combined
  by_name,             \* main: by_name, items in insertion order
  duplicates_removed,  \* main: duplicates_removed
  groups,              \* main: groups, <<label, list>> in insertion order
  out,                 \* main: out
  output,              \* combined.m3u on disk: the lines written, <<>> before
  raised               \* the exception that left main(), "" if none

vars == <<yt_file, json_file, pc, yt, chans, combined, idx, by_name,
          duplicates_removed, groups, out, output, raised>>

--------------------------------------------------------------------------
(* Characters and strings *)

\* The characters of the model's strings in code point order.
Chars == "\t\n\r !\"#,-./0123456789:=ABCDEFGHIJKLMNOPQRSTUVWXYZ_abcdefghijklmnopqrstuvwxyz~"

Upper == "ABCDEFGHIJKLMNOPQRSTUVWXYZ"
LowerCase == "abcdefghijklmnopqrstuvwxyz"
Digits == "0123456789"
Whitespace == {"\t", "\n", "\r", " "}

\* Stands, in the raw content of a file, for a byte sequence that is not
\* valid UTF-8.
BadByte == "~"

None == <<>>
Some(v) == <<v>>

Char(s, i) == SubSeq(s, i, i)

IndexIn(s, c) ==
  IF \E i \in 1..Len(s) : Char(s, i) = c
  THEN CHOOSE i \in 1..Len(s) : Char(s, i) = c
  ELSE 0

\* ord(c), up to the order-preserving renumbering of Chars.
Ord(c) == IndexIn(Chars, c)

Min(S) == CHOOSE x \in S : \A y \in S : x <= y

\* str.startswith
StartsWith(s, p) == Len(s) >= Len(p) /\ SubSeq(s, 1, Len(p)) = p

EndsWith(s, p) == Len(s) >= Len(p) /\ SubSeq(s, Len(s) - Len(p) + 1, Len(s)) = p

\* The positions at which p occurs in s.
Occurrences(s, p) ==
  {i \in 1..(Len(s) - Len(p) + 1) : SubSeq(s, i, i + Len(p) - 1) = p}

\* p in s
Contains(s, p) == Occurrences(s, p) # {}

\* str.lstrip()
RECURSIVE LStrip(_)
LStrip(s) ==
  IF s # "" /\ Char(s, 1) \in Whitespace THEN LStrip(SubSeq(s, 2, Len(s))) ELSE s

\* str.rstrip()
RECURSIVE RStrip(_)
RStrip(s) ==
  IF s # "" /\ Char(s, Len(s)) \in Whitespace
  THEN RStrip(SubSeq(s, 1, Len(s) - 1)) ELSE s

\* str.strip()
Strip(s) == RStrip(LStrip(s))

LowerChar(c) ==
  IF IndexIn(Upper, c) > 0 THEN Char(LowerCase, IndexIn(Upper, c)) ELSE c

\* str.lower()
RECURSIVE Lower(_)
Lower(s) ==
  IF s = "" THEN "" ELSE LowerChar(Char(s, 1)) \o Lower(SubSeq(s, 2, Len(s)))

\* a < b on str: lexicographic by code point.
RECURSIVE StrLess(_, _)
StrLess(a, b) ==
  IF Len(b) = 0 THEN FALSE
  ELSE IF Len(a) = 0 THEN TRUE
  ELSE IF Char(a, 1) = Char(b, 1)
       THEN StrLess(SubSeq(a, 2, Len(a)), SubSeq(b, 2, Len(b)))
       ELSE Ord(Char(a, 1)) < Ord(Char(b, 1))

StrLeq(a, b) == a = b \/ StrLess(a, b)

\* header.split(",", 1): the parts around the first comma.
SplitFirst(s) ==
  LET k == IndexIn(s, ",")
  IN IF k = 0 THEN <<s>>
     ELSE <<SubSeq(s, 1, k - 1), SubSeq(s, k + 1, Len(s))>>

\* The first match of  key="([^"]+)"  (allowEmpty FALSE) or  key="([^"]*)"
\* (allowEmpty TRUE) in s at or after position from: <<start, end>> of the
\* match, or <<>>.
AttrMatch(s, key, allowEmpty, from) ==
  LET pre == key \o "=\""
      Close(i) == {q \in (i + Len(pre))..Len(s) : Char(s, q) = "\""}
      ok == {i \in Occurrences(s, pre) :
               /\ i >= from
               /\ Close(i) # {}
               /\ (allowEmpty \/ Min(Close(i)) > i + Len(pre))}
  IN IF ok = {} THEN <<>> ELSE <<Min(ok), Min(Close(Min(ok)))>>

\* (re.search(r'key="([^"]*)"', s) or [None, None])[1]
AttrValue(s, key, allowEmpty) ==
  LET m == AttrMatch(s, key, allowEmpty, 1)
  IN IF m = <<>> THEN None
     ELSE Some(SubSeq(s, m[1] + Len(key) + 2, m[2] - 1))

\* re.sub(r'key="[^"]*"', 'key="val"', s), for val free of backslashes.
RECURSIVE SubAttr(_, _, _)
SubAttr(s, key, val) ==
  LET m == AttrMatch(s, key, TRUE, 1)
  IN IF m = <<>> THEN s
     ELSE SubSeq(s, 1, m[1] - 1) \o key \o "=\"" \o val \o "\""
          \o SubAttr(SubSeq(s, m[2] + 1, Len(s)), key, val)

--------------------------------------------------------------------------
(* Helpers of the script *)

\* Item(header, link, group, tvg_id, tvg_logo, name=..., source_rank=...)
Item(header, link, group, tvg_id, tvg_logo, name, source_rank) ==
  [header |-> header, link |-> link, group |-> group, tvg_id |-> tvg_id,
   tvg_logo |-> tvg_logo, name |-> name, source_rank |-> source_rank]

\* Variant: the text after the last comma.
channel_display_name_last(header) ==
  LET cs == {i \in 1..Len(header) : Char(header, i) = ","}
  IN IF cs = {} THEN Strip(header)
     ELSE Strip(SubSeq(header, (CHOOSE c \in cs : \A d \in cs : d <= c) + 1,
                      Len(header)))

\* header.split(",", 1)[-1].strip()
channel_display_name(header) ==
  LET parts == SplitFirst(header) IN Strip(parts[Len(parts)])

IdChar(c) ==
  IF IndexIn(Upper, c) > 0 \/ IndexIn(LowerCase, c) > 0
     \/ IndexIn(Digits, c) > 0 \/ c = "_"
  THEN c ELSE "_"

\* re.sub(r'[^A-Za-z0-9_]', '_', s)
RECURSIVE SubNonWord(_)
SubNonWord(s) ==
  IF s = "" THEN "" ELSE IdChar(Char(s, 1)) \o SubNonWord(SubSeq(s, 2, Len(s)))

\* re.sub(r'[^A-Za-z0-9_]', '_', name.strip())
generate_tvg_id(name) == SubNonWord(Strip(name))

\* bool(x) of an optional str: neither None nor "".
Truthy(opt) == opt # None /\ opt[1] # ""

--------------------------------------------------------------------------
(* parse_m3u *)

\* Decoding with errors="ignore": undecodable bytes are dropped.
RECURSIVE DecodeIgnore(_)
DecodeIgnore(raw) ==
  LET k == IndexIn(raw, BadByte)
  IN IF k = 0 THEN raw
     ELSE SubSeq(raw, 1, k - 1) \o DecodeIgnore(SubSeq(raw, k + 1, Len(raw)))

\* lines = [ln.strip() for ln in f]
ReadLines(raw_lines) ==
  [i \in 1..Len(raw_lines) |-> Strip(DecodeIgnore(raw_lines[i]))]

\* header = link = group = tvg_id = tvg_logo = None; out = []
ScanStart ==
  [header |-> None, group |-> None, tvg_id |-> None, tvg_logo |-> None,
   out |-> <<>>]

\* Variant: the pending header survives its link line.
ScanLineKeepHeader(st, ln) ==
  IF StartsWith(ln, "#EXTINF") THEN
    [st EXCEPT !.header = Some(ln),
               !.group = LET g == AttrValue(ln, "group-title", FALSE)
                         IN IF g = None THEN Some("Other") ELSE g,
               !.tvg_id = AttrValue(ln, "tvg-id", TRUE),
               !.tvg_logo = AttrValue(ln, "tvg-logo", TRUE)]
  ELSE IF ln # "" /\ ~StartsWith(ln, "#") THEN
    [st EXCEPT !.out = IF Truthy(st.header)
                       THEN Append(st.out,
                              Item(st.header[1], ln, st.group[1], st.tvg_id,
                                   st.tvg_logo,
                                   channel_display_name(st.header[1]), 3))
                       ELSE st.out]
  ELSE st

\* One iteration of the loop over lines.
ScanLine(st, ln) ==
  IF StartsWith(ln, "#EXTINF") THEN
    [st EXCEPT !.header = Some(ln),
               !.group = LET g == AttrValue(ln, "group-title", FALSE)
                         IN IF g = None THEN Some("Other") ELSE g,
               !.tvg_id = AttrValue(ln, "tvg-id", TRUE),
               !.tvg_logo = AttrValue(ln, "tvg-logo", TRUE)]
  ELSE IF ln # "" /\ ~StartsWith(ln, "#") THEN
    [st EXCEPT !.header = None,
               !.out = IF Truthy(st.header)
                       THEN Append(st.out,
                              Item(st.header[1], ln, st.group[1], st.tvg_id,
                                   st.tvg_logo,
                                   channel_display_name(st.header[1]), 3))
                       ELSE st.out]
  ELSE st

RECURSIVE ScanLines(_, _, _)
ScanLines(st, lines, i) ==
  IF i > Len(lines) THEN st
  ELSE ScanLines(ScanLine(st, lines[i]), lines, i + 1)

\* parse_m3u(path) for the file at path; a missing file gives [].
parse_m3u(file) ==
  IF ~file.exists THEN <<>>
  ELSE ScanLines(ScanStart, ReadLines(file.lines), 1).out

--------------------------------------------------------------------------
(* parse_json_channels *)

\* info.get(key): the value, or None when the key is absent.
Get(info, key) == IF key \in DOMAIN info THEN Some(info[key]) ELSE None

\* Variant: the url of the last online endpoint.
LastOnline(links) ==
  LET on == {i \in 1..Len(links) : links[i].status = "online"}
  IN IF on = {} THEN None
     ELSE Some(links[CHOOSE j \in on : \A i \in on : i <= j].url)

\* next((l["url"] for l in links if l.get("status") == "online"), None)
FirstOnline(links) ==
  LET on == {i \in 1..Len(links) : links[i].status = "online"}
  IN IF on = {} THEN None ELSE Some(links[Min(on)].url)

\* One iteration of the loop over data.items(): the list out after it.
JsonEntry(acc, name, info) ==
  LET group == IF "group" \in DOMAIN info THEN info.group ELSE "Other"
      tvg_id == IF Truthy(Get(info, "tvg_id")) THEN Get(info, "tvg_id")
                ELSE Some(generate_tvg_id(name))
      tvg_logo == Get(info, "tvg_logo")
      links == IF "links" \in DOMAIN info THEN info.links ELSE <<>>
      online == FirstOnline(links)
  IN IF Truthy(online)
     THEN Append(acc,
            Item("#EXTINF:-1 group-title=\"" \o group \o "\"," \o name,
                 online[1], group, tvg_id, tvg_logo, name, 2))
     ELSE acc

RECURSIVE JsonEntries(_, _, _)
JsonEntries(acc, data, i) ==
  IF i > Len(data) THEN acc
  ELSE JsonEntries(JsonEntry(acc, data[i].name, data[i].info), data, i + 1)

\* What open() / json.load() raise on the file: "" when it loads.
JsonLoadError(file) ==
  CASE file.kind = "missing" -> "FileNotFoundError"
    [] file.kind = "blank" -> "JSONDecodeError"
    [] file.kind = "undecodable" -> "UnicodeDecodeError"
    [] OTHER -> ""

\* parse_json_channels(path) when it returns: only FileNotFoundError is
\* caught.
parse_json_channels(file) ==
  IF JsonLoadError(file) = "FileNotFoundError" THEN <<>>
  ELSE JsonEntries(<<>>, file.data, 1)

\* The exception parse_json_channels lets through, "" if it returns.
JsonRaises(file) ==
  IF JsonLoadError(file) = "FileNotFoundError" THEN "" ELSE JsonLoadError(file)

--------------------------------------------------------------------------
(* save_m3u *)

EPG_URL == "https://raw.githubusercontent.com/time2shine/IPTV/refs/heads/master/epg.xml"

\* The first line written.
FormatLine ==
  "#EXTM3U url-tvg=\"" \o EPG_URL \o "\" x-tvg-url=\"" \o EPG_URL \o "\""

\* base after the patch of one attribute (tvg-id or tvg-logo).
PatchAttr(base, key, opt) ==
  IF ~Truthy(opt) THEN base
  ELSE IF Contains(base, key \o "=\"") THEN SubAttr(base, key, opt[1])
  ELSE base \o " " \o key \o "=\"" \o opt[1] \o "\""

\* The metadata line written for one item.
MetaLine(it) ==
  PatchAttr(PatchAttr(SplitFirst(it.header)[1], "tvg-id", it.tvg_id),
            "tvg-logo", it.tvg_logo)
  \o "," \o it.name

RECURSIVE ItemLines(_, _)
ItemLines(items, i) ==
  IF i > Len(items) THEN <<>>
  ELSE <<MetaLine(items[i]), items[i].link>> \o ItemLines(items, i + 1)

\* The lines of the file save_m3u(items, output_file) writes.
save_m3u(items) == <<FormatLine>> \o ItemLines(items, 1)

--------------------------------------------------------------------------
(* main: merge, dedupe, group, sort, order *)

GROUP_ORDER ==
  <<"Bangla", "Bangla News", "International News", "India", "Pakistan",
    "Educational", "Music", "International", "Travel", "Sports", "Religious",
    "Kids">>

InSeq(x, seq) == \E i \in 1..Len(seq) : seq[i] = x

\* Variant: the playlist records first.
ConcatPlaylistFirst(c, y) == y \o c

\* combined = chans + yt
Concat(c, y) == c \o y

\* Variant: names compared without regard to case.
NewKeyFolded(dict, it) ==
  \A i \in 1..Len(dict) : Lower(dict[i].name) # Lower(it.name)

\* key not in by_name
NewKey(dict, it) == \A i \in 1..Len(dict) : dict[i].name # it.name

\* groups[it.group].append(it), for groups a defaultdict(list).
AddToGroup(gs, it) ==
  IF \E i \in 1..Len(gs) : gs[i].g = it.group
  THEN [i \in 1..Len(gs) |->
          IF gs[i].g = it.group
          THEN [gs[i] EXCEPT !.items = Append(@, it)] ELSE gs[i]]
  ELSE Append(gs, [g |-> it.group, items |-> <<it>>])

RECURSIVE GroupAll(_, _, _)
GroupAll(gs, values, i) ==
  IF i > Len(values) THEN gs ELSE GroupAll(AddToGroup(gs, values[i]), values, i + 1)

\* Variant: the name as it is.
SortKeyExact(it) == it.name

\* key=lambda x: x.name.lower()
SortKey(it) == Lower(it.name)

\* Where a stable sort puts x among the sorted items before it: after
\* every item whose key is not greater.
InsertSorted(sorted, x) ==
  LET after == {i \in 1..Len(sorted) : StrLeq(SortKey(sorted[i]), SortKey(x))}
      k == IF after = {} THEN 0 ELSE CHOOSE j \in after : \A i \in after : i <= j
  IN SubSeq(sorted, 1, k) \o <<x>> \o SubSeq(sorted, k + 1, Len(sorted))

\* list.sort(key=...): stable.
RECURSIVE SortItems(_, _, _)
SortItems(sorted, items, i) ==
  IF i > Len(items) THEN sorted
  ELSE SortItems(InsertSorted(sorted, items[i]), items, i + 1)

\* Variant: labels compared without regard to case.
RECURSIVE SortedLabelsFolded(_)
SortedLabelsFolded(S) ==
  IF S = {} THEN <<>>
  ELSE LET m == CHOOSE x \in S : \A y \in S : StrLeq(Lower(x), Lower(y))
       IN <<m>> \o SortedLabelsFolded(S \ {m})

\* sorted(...) of distinct str.
RECURSIVE SortedLabels(_)
SortedLabels(S) ==
  IF S = {} THEN <<>>
  ELSE LET m == CHOOSE x \in S : \A y \in S : StrLeq(x, y)
       IN <<m>> \o SortedLabels(S \ {m})

\* GROUP_ORDER + sorted(k for k in groups.keys() if k not in GROUP_ORDER)
EmitOrder(gs) ==
  GROUP_ORDER
  \o SortedLabels({gs[i].g : i \in {j \in 1..Len(gs) : ~InSeq(gs[j].g, GROUP_ORDER)}})

\* groups.get(g, [])
GroupGet(gs, g) ==
  IF \E i \in 1..Len(gs) : gs[i].g = g
  THEN (CHOOSE x \in {gs[i] : i \in 1..Len(gs)} : x.g = g).items
  ELSE <<>>

RECURSIVE Emit(_, _, _)
Emit(gs, order, i) ==
  IF i > Len(order) THEN <<>>
  ELSE GroupGet(gs, order[i]) \o Emit(gs, order, i + 1)

--------------------------------------------------------------------------
(* Input files *)

MaxChannels == 2     \* channels of the playlist file, specification Spec
MaxEntries == 2      \* entries of the structured file, specification Spec
MaxLines == 4        \* lines of the playlist file, specification SpecM3U
MaxJsonEntries == 2  \* entries of the structured file, specification SpecJson
MaxLinks == 2        \* endpoints of one entry, specification SpecJson

\* The sequences over S of length at most n.
SeqsUpTo(S, n) == UNION {[1..k -> S] : k \in 0..n}

RECURSIVE Flatten(_, _)
Flatten(ss, i) == IF i > Len(ss) THEN <<>> ELSE ss[i] \o Flatten(ss, i + 1)

\* Channels of a playlist file: a metadata line and its link line.
Channels ==
  { <<"#EXTINF:-1 tvg-id=\"a1\" group-title=\"Music\",Alpha", "http://y/2">>,
    <<"#EXTINF:-1 group-title=\"Music\",alpha", "http://y/3">>,
    <<"#EXTINF:-1 tvg-logo=\"http://l/g.png\" group-title=\"art\",gamma",
      " http://y/~4">>,
    <<"#EXTINF:-1 tvg-logo=\"http://l/a,b.png\" group-title=\"Bangla\",Nine",
      "http://y/5">> }

Online(u) == [url |-> u, status |-> "online"]
Offline(u) == [url |-> u, status |-> "offline"]

\* Entries of a structured file: a channel name and its object.
Entries ==
  { [name |-> "Alpha",
     info |-> [group |-> "Music", tvg_logo |-> "http://l/A.png",
               links |-> <<Offline("http://j/a"), Online("http://j/b")>>]],
    [name |-> "beta",
     info |-> [group |-> "Music", tvg_id |-> "B2",
               links |-> <<Online("http://j/c")>>]],
    [name |-> "My Channel!", info |-> [links |-> <<Online("http://j/d")>>]],
    [name |-> "Zulu",
     info |-> [group |-> "Zoo",
               links |-> <<Offline("http://j/e"), Offline("http://j/f"),
                           Online("http://j/g")>>]] }

\* The keys of a JSON object are distinct.
DistinctNames(data) ==
  \A i, j \in 1..Len(data) : data[i].name = data[j].name => i = j

M3UFiles ==
  {[exists |-> FALSE, lines |-> <<>>]}
  \cup {[exists |-> TRUE, lines |-> Flatten(cs, 1)] : cs \in SeqsUpTo(Channels, MaxChannels)}

JsonFiles ==
  {[kind |-> k, data |-> <<>>] : k \in {"missing", "blank", "undecodable"}}
  \cup {[kind |-> "ok", data |-> d] :
          d \in {e \in SeqsUpTo(Entries, MaxEntries) : DistinctNames(e)}}

\* Lines of a playlist file, for the line scan.
Lines ==
  { "#EXTINF:-1 tvg-id=\"a\" group-title=\"Music\",One",
    "#EXTINF:-1 tvg-logo=\"l\",News, Live",
    "#EXTINF:-1 Bare",
    "http://y/1",
    "\thttp://y/~2 ",
    "",
    "#EXTVLCOPT:x" }

LineFiles ==
  {[exists |-> FALSE, lines |-> <<>>]}
  \cup {[exists |-> TRUE, lines |-> ls] : ls \in SeqsUpTo(Lines, MaxLines)}

\* Endpoints and channel names of a structured file, for endpoint selection.
Links == {Offline("http://j/a"), Online("http://j/b"), Online("")}

LinkNames == {"Alpha", "My Channel!"}

LinkFiles ==
  {[kind |-> "ok",
    data |-> [i \in 1..Len(ns) |-> [name |-> ns[i], info |-> [links |-> ls[i]]]]] :
     <<ns, ls>> \in
       UNION {{ns \in [1..k -> LinkNames] : \A i, j \in 1..k : ns[i] = ns[j] => i = j}
                \X [1..k -> SeqsUpTo(Links, MaxLinks)] : k \in 0..MaxJsonEntries}}

--------------------------------------------------------------------------
(* main *)

Start(m3u, json, at) ==
  /\ yt_file = m3u
  /\ json_file = json
  /\ pc = at
  /\ yt = <<>>
  /\ chans = <<>>
  /\ combined = <<>>
  /\ idx = 0
  /\ by_name = <<>>
  /\ duplicates_removed = 0
  /\ groups = <<>>
  /\ out = <<>>
  /\ output = <<>>
  /\ raised = ""

Init == \E m3u \in M3UFiles, json \in JsonFiles : Start(m3u, json, "start")

\* yt = parse_m3u(YT_FILE)
ParseM3U ==
  /\ pc = "start"
  /\ yt' = parse_m3u(yt_file)
  /\ pc' = "parsed_m3u"
  /\ UNCHANGED <<yt_file, json_file, chans, combined, idx, by_name,
                 duplicates_removed, groups, out, output, raised>>

\* chans = parse_json_channels(JSON_FILE); an exception it does not catch
\* leaves main.
ParseJson ==
  /\ pc = "parsed_m3u"
  /\ IF JsonRaises(json_file) # ""
     THEN /\ raised' = JsonRaises(json_file)
          /\ pc' = "raised"
          /\ UNCHANGED chans
     ELSE /\ chans' = parse_json_channels(json_file)
          /\ pc' = "parsed_json"
          /\ UNCHANGED raised
  /\ UNCHANGED <<yt_file, json_file, yt, combined, idx, by_name,
                 duplicates_removed, groups, out, output>>

\* combined = chans + yt; by_name = {}; duplicates_removed = 0
Combine ==
  /\ pc = "parsed_json"
  /\ combined' = Concat(chans, yt)
  /\ by_name' = <<>>
  /\ duplicates_removed' = 0
  /\ idx' = 1
  /\ pc' = "dedupe"
  /\ UNCHANGED <<yt_file, json_file, yt, chans, groups, out, output, raised>>

\* One iteration of  for it in combined.
DedupeStep ==
  /\ pc = "dedupe"
  /\ idx <= Len(combined)
  /\ IF NewKey(by_name, combined[idx])
     THEN /\ by_name' = Append(by_name, combined[idx])
          /\ UNCHANGED duplicates_removed
     ELSE /\ duplicates_removed' = duplicates_removed + 1
          /\ UNCHANGED by_name
  /\ idx' = idx + 1
  /\ UNCHANGED <<yt_file, json_file, pc, yt, chans, combined, groups, out,
                 output, raised>>

\* for it in by_name.values(): groups[it.group].append(it)
Group ==
  /\ pc = "dedupe"
  /\ idx > Len(combined)
  /\ groups' = GroupAll(<<>>, by_name, 1)
  /\ pc' = "grouped"
  /\ UNCHANGED <<yt_file, json_file, yt, chans, combined, idx, by_name,
                 duplicates_removed, out, output, raised>>

\* for g in groups: groups[g].sort(key=lambda x: x.name.lower())
Sort ==
  /\ pc = "grouped"
  /\ groups' = [i \in 1..Len(groups) |->
                  [groups[i] EXCEPT !.items = SortItems(<<>>, @, 1)]]
  /\ pc' = "sorted"
  /\ UNCHANGED <<yt_file, json_file, yt, chans, combined, idx, by_name,
                 duplicates_removed, out, output, raised>>

\* out = []; for g in GROUP_ORDER + sorted(...): out.extend(groups.get(g, []))
Order ==
  /\ pc = "sorted"
  /\ out' = Emit(groups, EmitOrder(groups), 1)
  /\ pc' = "ordered"
  /\ UNCHANGED <<yt_file, json_file, yt, chans, combined, idx, by_name,
                 duplicates_removed, groups, output, raised>>

\* save_m3u(out, OUTPUT_FILE)
Save ==
  /\ pc = "ordered"
  /\ output' = save_m3u(out)
  /\ pc' = "done"
  /\ UNCHANGED <<yt_file, json_file, yt, chans, combined, idx, by_name,
                 duplicates_removed, groups, out, raised>>

Next ==
  \/ ParseM3U
  \/ ParseJson
  \/ Combine
  \/ DedupeStep
  \/ Group
  \/ Sort
  \/ Order
  \/ Save

Spec == Init /\ [][Next]_vars

\* parse_m3u alone, over files of arbitrary lines.
InitM3U ==
  \E m3u \in LineFiles : Start(m3u, [kind |-> "missing", data |-> <<>>], "start")

NextM3U == ParseM3U

SpecM3U == InitM3U /\ [][NextM3U]_vars

\* parse_json_channels alone, over entries of arbitrary endpoints, after
\* parse_m3u found no playlist file.
InitJson ==
  \E json \in LinkFiles :
     Start([exists |-> FALSE, lines |-> <<>>], json, "parsed_m3u")

NextJson == ParseJson

SpecJson == InitJson /\ [][NextJson]_vars

--------------------------------------------------------------------------
(* Properties of the merge: C1 - C4 *)

Merged == pc \in {"ordered", "done"}

\* The first position in seq of a record named n.
FirstIdx(seq, n) == Min({i \in 1..Len(seq) : seq[i].name = n})

NamesOf(seq) == {seq[i].name : i \in 1..Len(seq)}

\* C1: for every display name carried both by a record of the structured
\* parser and by a record of the playlist parser, the merged output holds
\* exactly one record of that name and it is the structured record (its
\* link, id and logo, rank 2), never the playlist record; the link line
\* written for it is the structured link.
C1_StructuredWins ==
  Merged =>
    \A i \in 1..Len(chans), j \in 1..Len(yt) :
      chans[i].name = yt[j].name =>
        /\ Cardinality({k \in 1..Len(out) : out[k].name = chans[i].name}) = 1
        /\ \A k \in 1..Len(out) :
             out[k].name = chans[i].name =>
               /\ out[k] = chans[i]
               /\ out[k].source_rank = 2
               /\ pc = "done" => output[2 * k + 1] = chans[i].link

C1_Witness ==
  /\ pc = "done"
  /\ \E i \in 1..Len(chans), j \in 1..Len(yt) :
       /\ chans[i].name = yt[j].name
       /\ chans[i].link # yt[j].link
       /\ chans[i].tvg_id # yt[j].tvg_id

\* C2: after the dedupe loop the record kept for a name is the first one of
\* that exact name in combined; the output holds exactly one record per
\* distinct name, namely that first one, and nothing else; and
\* duplicates_removed is the number of parsed records minus the number of
\* output records.
C2_FirstWriteWins ==
  /\ (pc \in {"grouped", "sorted", "ordered", "done"}
        \/ (pc = "dedupe" /\ idx > Len(combined))) =>
       /\ \A i \in 1..Len(combined) :
            LET n == combined[i].name
            IN {k \in 1..Len(by_name) : by_name[k].name = n}
                 = {k \in 1..Len(by_name) : by_name[k] = combined[FirstIdx(combined, n)]}
               /\ Cardinality({k \in 1..Len(by_name) : by_name[k].name = n}) = 1
       /\ duplicates_removed = Len(combined) - Len(by_name)
  /\ Merged =>
       /\ Len(out) = Cardinality(NamesOf(combined))
       /\ \A n \in NamesOf(combined) :
            \E k \in 1..Len(out) :
              /\ out[k] = combined[FirstIdx(combined, n)]
              /\ \A l \in 1..Len(out) : out[l].name = n => l = k
       /\ \A k \in 1..Len(out) : out[k].name \in NamesOf(combined)
       /\ duplicates_removed = Len(yt) + Len(chans) - Len(out)

C2_Witness ==
  /\ pc = "done"
  /\ duplicates_removed > 0
  /\ \E i, j \in 1..Len(out) :
       out[i].name # out[j].name /\ Lower(out[i].name) = Lower(out[j].name)

GroupRank(g) == Min({i \in 1..Len(GROUP_ORDER) : GROUP_ORDER[i] = g})

\* C3: in the output the records of one group are contiguous; the groups of
\* the priority list come first, in the order of the list; the other groups
\* follow, in ascending case-sensitive lexicographic order; the output holds
\* the deduplicated records and nothing more, whatever priority groups are
\* empty.
C3_GroupOrdering ==
  Merged =>
    /\ \A i, j, k \in 1..Len(out) :
         i < j /\ j < k /\ out[i].group = out[k].group
           => out[j].group = out[i].group
    /\ \A i, j \in 1..Len(out) :
         i < j /\ out[i].group # out[j].group =>
           LET a == out[i].group
               b == out[j].group
           IN IF InSeq(a, GROUP_ORDER)
              THEN InSeq(b, GROUP_ORDER) => GroupRank(a) < GroupRank(b)
              ELSE ~InSeq(b, GROUP_ORDER) /\ StrLess(a, b)
    /\ Len(out) = Len(by_name)
    /\ \A k \in 1..Len(by_name) : InSeq(by_name[k], out)

C3_Witness ==
  /\ pc = "done"
  /\ \E i, j, k \in 1..Len(out) :
       /\ i < j /\ j < k
       /\ InSeq(out[i].group, GROUP_ORDER)
       /\ ~InSeq(out[j].group, GROUP_ORDER)
       /\ ~InSeq(out[k].group, GROUP_ORDER)
       /\ out[j].group # out[k].group
       /\ StrLess(Lower(out[k].group), Lower(out[j].group))
       /\ FirstIdx(by_name, out[k].name) < FirstIdx(by_name, out[i].name)
  /\ \E g \in 1..Len(GROUP_ORDER) :
       \A k \in 1..Len(out) : out[k].group # GROUP_ORDER[g]

\* C4: within a group of the output the names are in non-decreasing order
\* when compared case-insensitively, and two records whose names are equal
\* case-insensitively keep the order in which they were first met in
\* combined.
C4_InGroupSort ==
  Merged =>
    \A i, j \in 1..Len(out) :
      i < j /\ out[i].group = out[j].group =>
        /\ StrLeq(Lower(out[i].name), Lower(out[j].name))
        /\ Lower(out[i].name) = Lower(out[j].name) =>
             FirstIdx(combined, out[i].name) < FirstIdx(combined, out[j].name)

C4_Witness ==
  /\ pc = "done"
  /\ \E i, j \in 1..Len(out) :
       /\ i < j /\ out[i].group = out[j].group
       /\ Lower(out[i].name) = Lower(out[j].name)
       /\ StrLess(out[j].name, out[i].name)
       /\ out[i].source_rank = 3
  /\ \E i, j \in 1..Len(out) :
       /\ i < j /\ out[i].group = out[j].group
       /\ FirstIdx(by_name, out[j].name) < FirstIdx(by_name, out[i].name)

--------------------------------------------------------------------------
(* Properties of the structured parser: C5 *)

LinksOf(e) == IF "links" \in DOMAIN e.info THEN e.info.links ELSE <<>>

HasOnline(e) ==
  \E m \in 1..Len(LinksOf(e)) : LinksOf(e)[m].status = "online"

\* u is the url of the first endpoint of e whose status is "online".
IsFirstOnlineUrl(e, u) ==
  \E m \in 1..Len(LinksOf(e)) :
    /\ LinksOf(e)[m].status = "online"
    /\ \A l \in 1..(m - 1) : LinksOf(e)[l].status # "online"
    /\ LinksOf(e)[m].url = u

HasUsableOnline(e) ==
  \E m \in 1..Len(LinksOf(e)) :
  /\ LinksOf(e)[m].status = "online"
  /\ \A l \in 1..(m - 1) : LinksOf(e)[l].status # "online"
  /\ LinksOf(e)[m].url # ""

\* chans holds, in order, one record for each entry of kept, linked to the
\* url of the entry's first online endpoint.
OneRecordPerEntry(kept) ==
  /\ Len(chans) = Len(kept)
  /\ \A k \in 1..Len(kept) :
       /\ chans[k].name = kept[k].name
       /\ IsFirstOnlineUrl(kept[k], chans[k].link)

\* C5 as stated: every entry with at least one online endpoint yields
\* exactly one record, linked to the url of the first online endpoint; an
\* entry with no online endpoint yields none; records come in key order.
C5_OnlineSelection_Original ==
  pc = "parsed_json" => OneRecordPerEntry(SelectSeq(json_file.data, HasOnline))

\* C5, amended: every entry whose first online endpoint has a non-empty url
\* yields exactly one record, linked to that url; an entry with no online
\* endpoint, or whose first online endpoint has an empty url, yields none;
\* records come in key order.
C5_OnlineSelection ==
  pc = "parsed_json" => OneRecordPerEntry(SelectSeq(json_file.data, HasUsableOnline))

C5_Witness ==
  /\ pc = "parsed_json"
  /\ Len(chans) = 1
  /\ Len(json_file.data) = 2
  /\ \E i \in 1..2 :
       /\ ~HasOnline(json_file.data[i])
       /\ Len(LinksOf(json_file.data[i])) > 0
  /\ \E i \in 1..2 :
       /\ HasUsableOnline(json_file.data[i])
       /\ LinksOf(json_file.data[i])[1].status = "offline"

--------------------------------------------------------------------------
(* Properties of the playlist parser: C9, C10 *)

IsMeta(ln) == StartsWith(ln, "#EXTINF")
IsLink(ln) == ln # "" /\ ~StartsWith(ln, "#")

\* The lines the parser scans.
Scanned == ReadLines(yt_file.lines)

\* <<i, j>>: metadata line i of L and the first link line j after it, with
\* no metadata line in between.
Pairs(L) ==
  {p \in (1..Len(L)) \X (1..Len(L)) :
     /\ p[1] < p[2]
     /\ IsMeta(L[p[1]])
     /\ IsLink(L[p[2]])
     /\ \A k \in (p[1] + 1)..(p[2] - 1) : ~IsMeta(L[k]) /\ ~IsLink(L[k])}

GroupOfLine(ln) ==
  IF AttrValue(ln, "group-title", FALSE) = None THEN "Other"
  ELSE AttrValue(ln, "group-title", FALSE)[1]

\* C9: the playlist parser yields, in file order, exactly one record for
\* each metadata line followed, before the next metadata line, by a link
\* line (a non-empty line that is no comment), paired with the first such
\* line; blank and comment lines in between keep the entry pending; a
\* metadata line without a link line and a link line without a pending
\* metadata line yield nothing; group, id and logo are those of the
\* record's own metadata line.
C9_LineScan ==
  pc = "parsed_m3u" /\ yt_file.exists =>
    LET L == Scanned
        ps == Pairs(L)
    IN /\ Len(yt) = Cardinality(ps)
       /\ \A p \in ps :
            LET k == Cardinality({q \in ps : q[1] < p[1]}) + 1
                meta == L[p[1]]
            IN /\ yt[k].header = meta
               /\ yt[k].link = L[p[2]]
               /\ yt[k].group = GroupOfLine(meta)
               /\ yt[k].tvg_id = AttrValue(meta, "tvg-id", TRUE)
               /\ yt[k].tvg_logo = AttrValue(meta, "tvg-logo", TRUE)

C9_Witness ==
  /\ pc = "parsed_m3u"
  /\ Len(yt) = 1
  /\ Len(yt_file.lines) = 4
  /\ LET L == Scanned
     IN /\ IsMeta(L[1]) /\ IsMeta(L[2])
        /\ AttrValue(L[1], "tvg-id", TRUE) # AttrValue(L[2], "tvg-id", TRUE)
        /\ ~IsMeta(L[3]) /\ ~IsLink(L[3])
        /\ IsLink(L[4])

\* The positions of the commas of s.
Commas(s) == {i \in 1..Len(s) : Char(s, i) = ","}

\* C10 as stated: the name of every playlist record is the trimmed text
\* after the last comma of its metadata line.
C10_NameAfterLastComma ==
  pc = "parsed_m3u" =>
    \A k \in 1..Len(yt) :
      Commas(yt[k].header) # {} =>
        LET last == CHOOSE c \in Commas(yt[k].header) :
                      \A d \in Commas(yt[k].header) : d <= c
        IN yt[k].name = Strip(SubSeq(yt[k].header, last + 1, Len(yt[k].header)))

\* C10, amended: the name of every playlist record is the trimmed text
\* after the first comma of its metadata line (all of the trimmed line when
\* it has no comma), so a metadata line with several commas keeps all that
\* follows the first one in the name.
C10_NameAfterFirstComma ==
  pc = "parsed_m3u" =>
    \A k \in 1..Len(yt) :
      LET h == yt[k].header
      IN IF Commas(h) = {} THEN yt[k].name = Strip(h)
         ELSE yt[k].name = Strip(SubSeq(h, Min(Commas(h)) + 1, Len(h)))

C10_Witness ==
  /\ pc = "parsed_m3u"
  /\ \E k \in 1..Len(yt) : Cardinality(Commas(yt[k].header)) >= 2
  /\ \E k \in 1..Len(yt) : Commas(yt[k].header) = {}

--------------------------------------------------------------------------
(* Properties of the file handling and of the serializer: C6 - C8 *)

YtMissing == ~yt_file.exists
JsonMissing == json_file.kind = "missing"


\* C6: when exactly one of the two files is missing, its parser returns no
\* record and raises nothing, main runs to the end without an error, and
\* the file written holds exactly the records of the other source.
C6_MissingFileTolerance ==
  (YtMissing # JsonMissing) =>
    /\ raised = ""
    /\ pc # "raised"
    /\ YtMissing /\ pc # "start" => yt = <<>>
    /\ JsonMissing /\ pc \notin {"start", "parsed_m3u"} => chans = <<>>
    /\ pc = "done" =>
         /\ output = save_m3u(out)
         /\ Len(out) = Len(by_name)
         /\ \A k \in 1..Len(out) :
              out[k].source_rank = IF YtMissing THEN 2 ELSE 3

\* C7: for either parser an existing blank file gives no record and no
\* error, undecodable bytes are ignored instead of ending the parse, and
\* main does not stop before it writes the output.
C7_BlankAndUndecodable ==
  /\ yt_file.exists /\ yt_file.lines = <<>> /\ pc # "start" => yt = <<>>
  /\ json_file.kind = "blank" /\ pc \notin {"start", "parsed_m3u"} =>
       /\ raised = ""
       /\ chans = <<>>
  /\ json_file.kind = "undecodable" => raised = ""
  /\ pc # "raised"

\* The values of the complete  key="..."  attributes of s.
AttrValues(s, key) ==
  LET pre == key \o "=\""
  IN {SubSeq(s, i + Len(pre), q - 1) :
        <<i, q>> \in {x \in Occurrences(s, pre) \X (1..Len(s)) :
                        /\ x[2] >= x[1] + Len(pre)
                        /\ Char(s, x[2]) = "\""
                        /\ \A r \in (x[1] + Len(pre))..(x[2] - 1) :
                             Char(s, r) # "\""}}

\* C8: the file written is the format line and then, for each record of the
\* ordered sequence, a metadata line and the record's link; the metadata
\* line starts with the part of the header before its first comma, ends
\* with a comma and the record's name, and the part before that closing
\* comma carries the record's id and logo, when set, as the only value of
\* the id and logo attribute.
C8_MetadataLine ==
  pc = "done" =>
    /\ Len(output) = 1 + 2 * Len(out)
    /\ output[1] = FormatLine
    /\ \A k \in 1..Len(out) :
         LET it == out[k]
             line == output[2 * k]
             base == SubSeq(line, 1, Len(line) - Len(it.name) - 1)
             trunc == SplitFirst(it.header)[1]
         IN /\ output[2 * k + 1] = it.link
            /\ EndsWith(line, "," \o it.name)
            /\ StartsWith(line, SubSeq(trunc, 1, Len("#EXTINF:-1")))
            /\ Truthy(it.tvg_id) => AttrValues(base, "tvg-id") = {it.tvg_id[1]}
            /\ Truthy(it.tvg_logo) => AttrValues(base, "tvg-logo") = {it.tvg_logo[1]}

==========================================================================
